---- MODULE Spec2Model ----
(***************************************************************************)
(* Model of the hablara helper scripts.                                    *)
(*                                                                         *)
(*   scripts/mlx_analyze.py     emotion / fallacy analysis CLI             *)
(*   scripts/mlx_transcribe.py  transcription CLI with hallucination check *)
(*   scripts/validate-quantized-model.py  FP32 / INT8 embedding comparison *)
(*   scripts/quantize-onnx-model.py       FP32 -> INT8 quantization        *)
(*   scripts/mlx_server_dev.py            /transcribe of the dev server    *)
(*                                                                         *)
(* A text is a sequence of lexemes.  The structural characters the code    *)
(* looks at ({ } " : , [ ] \ and white space) are one lexeme each; a run   *)
(* of other characters (a word, a number) is one lexeme, and so is the     *)
(* end-of-generation marker <|endoftext|>.  No lexeme other than "{" and   *)
(* "}" contains a brace, so the character scan of the code and the scan    *)
(* over lexemes visit the braces in the same order.  Indices are Python    *)
(* indices (0-based, half-open slices) counted in lexemes.                 *)
(***************************************************************************)
EXTENDS Integers, Sequences, FiniteSets, TLC

VARIABLES
    \* ---- mlx_analyze.py ----
    pc,             \* position of the analysis process
    mode,           \* args.mode
    model,          \* args.model
    response,       \* what generate() returned
    embedded,       \* the object literal the response was built around (<<>>: none)
    response_text,
    json_start,
    json_end,
    brace_count,
    i,
    json_str,
    result,
    exc,            \* the exception in flight
    ret,            \* the value returned to main
    stdout,
    stderr,
    exit_code,
    \* ---- mlx_transcribe.py ----
    t_pc,              \* position of the transcription process
    args_language,     \* args.language
    stt,               \* result of engine.transcribe()
    no_speech_prob,
    avg_logprob,
    is_hallucination,
    audio_duration,
    output,
    t_stdout,
    t_stderr,
    t_exit,
    \* ---- validate-quantized-model.py ----
    v_pc,              \* position of the validation process
    sentence,          \* index into TEST_SENTENCES of the loop at line 189
    similarities,
    avg,
    min_sim,
    max_sim,
    v_exc,             \* the exception in flight
    v_stdout,
    v_stderr,
    v_exit,
    \* ---- quantize-onnx-model.py ----
    q_pc,              \* position of the quantization process
    files,             \* which of the three model files exist
    original_size,
    quantized_size,
    reduction,
    q_exc,             \* the exception in flight
    q_stdout,
    q_stderr,
    q_exit,
    \* ---- mlx_server_dev.py ----
    s_pc,              \* position of the /transcribe handler
    handled,           \* requests received so far
    request,
    ext,
    s_model,           \* the handler's local "model"
    s_language,        \* the handler's local "language"
    tmp,               \* tmp.name of the NamedTemporaryFile
    tmp_path,
    tmpfiles,          \* the temporary files that exist
    s_result,          \* the CompletedProcess of subprocess.run
    s_exc,             \* the exception in flight
    pending,           \* value of a return statement waiting for finally
    http               \* the response sent

avars == <<pc, mode, model, response, embedded, response_text, json_start,
           json_end, brace_count, i, json_str, result, exc, ret, stdout,
           stderr, exit_code>>

tvars == <<t_pc, args_language, stt, no_speech_prob, avg_logprob,
           is_hallucination, audio_duration, output, t_stdout, t_stderr,
           t_exit>>

vvars == <<v_pc, sentence, similarities, avg, min_sim, max_sim, v_exc,
           v_stdout, v_stderr, v_exit>>

qvars == <<q_pc, files, original_size, quantized_size, reduction, q_exc,
           q_stdout, q_stderr, q_exit>>

svars == <<s_pc, handled, request, ext, s_model, s_language, tmp, tmp_path,
           tmpfiles, s_result, s_exc, pending, http>>

vars == <<avars, tvars, vvars, qvars, svars>>

\* what the steps of one program leave alone: the other programs
aframe == <<tvars, vvars, qvars, svars>>
tframe == <<avars, vvars, qvars, svars>>
vframe == <<avars, tvars, qvars, svars>>
qframe == <<avars, tvars, vvars, svars>>
sframe == <<avars, tvars, vvars, qvars>>

\* Longest response enumerated exhaustively over ScanAlphabet.
MaxLen == 4

(***************************************************************************)
(* Python values and built-ins                                             *)
(***************************************************************************)
EOS == "<|endoftext|>"
Whitespace == {" ", "\n"}
None == <<>>
NoStr == <<"<None>">>
NoExc == [type |-> "none", msg |-> <<>>]
Unset == -1

Range(s) == {s[k] : k \in DOMAIN s}
Min(S) == CHOOSE x \in S : \A y \in S : x <= y
Max(S) == CHOOSE x \in S : \A y \in S : x >= y

\* s[k] and s[a:b] with Python's 0-based indices
At(s, k) == s[k + 1]
Slice(s, a, b) == SubSeq(s, a + 1, b)

\* str.strip()
Strip(s) ==
    LET keep == {k \in DOMAIN s : s[k] \notin Whitespace}
    IN  IF keep = {} THEN <<>> ELSE SubSeq(s, Min(keep), Max(keep))

\* str.index(c), for c in s
Index(s, c) == Min({k \in DOMAIN s : s[k] = c}) - 1

\* s.split(sep)[0]
SplitFirst(s, sep) ==
    IF sep \in Range(s) THEN Slice(s, 0, Index(s, sep)) ELSE s

(***************************************************************************)
(* json.loads: objects, arrays, strings and numbers.  A string value is    *)
(* <<"str", content>>, a number <<"num", lexeme>>, an array <<"arr", seq>> *)
(* and an object <<"obj", f>> with f a function from keys (the content of  *)
(* the key string) to values; a repeated key keeps its last value.         *)
(***************************************************************************)
Numbers == {"1", "0.8"}
Fail == [ok |-> FALSE, val |-> <<>>, pos |-> 0]
Ok(v, p) == [ok |-> TRUE, val |-> v, pos |-> p]
EmptyDict == <<>>
Put(d, k, v) == [x \in (DOMAIN d) \cup {k} |-> IF x = k THEN v ELSE d[x]]

RECURSIVE SkipWs(_, _)
SkipWs(s, j) ==
    IF j <= Len(s) /\ s[j] \in Whitespace THEN SkipWs(s, j + 1) ELSE j

\* the body of a string literal, from the lexeme after the opening quote
RECURSIVE StringBody(_, _, _)
StringBody(s, j, acc) ==
    IF j > Len(s) THEN Fail
    ELSE IF s[j] = "\"" THEN Ok(acc, j + 1)
    ELSE IF s[j] = "\\" THEN
        IF j + 1 <= Len(s) /\ s[j + 1] \in {"\"", "\\"}
        THEN StringBody(s, j + 2, Append(acc, s[j + 1]))
        ELSE Fail
    ELSE IF s[j] = "\n" THEN Fail
    ELSE StringBody(s, j + 1, Append(acc, s[j]))

RECURSIVE ParseValue(_, _)
RECURSIVE ParseMembers(_, _, _)
RECURSIVE ParseElements(_, _, _)

ParseValue(s, j) ==
    IF j > Len(s) THEN Fail
    ELSE IF s[j] = "\"" THEN
        LET r == StringBody(s, j + 1, <<>>)
        IN  IF r.ok THEN Ok(<<"str", r.val>>, r.pos) ELSE Fail
    ELSE IF s[j] = "{" THEN
        LET k == SkipWs(s, j + 1)
        IN  IF k <= Len(s) /\ s[k] = "}"
            THEN Ok(<<"obj", EmptyDict>>, k + 1)
            ELSE ParseMembers(s, k, EmptyDict)
    ELSE IF s[j] = "[" THEN
        LET k == SkipWs(s, j + 1)
        IN  IF k <= Len(s) /\ s[k] = "]"
            THEN Ok(<<"arr", <<>>>>, k + 1)
            ELSE ParseElements(s, k, <<>>)
    ELSE IF s[j] \in Numbers THEN Ok(<<"num", s[j]>>, j + 1)
    ELSE Fail

ParseMembers(s, j, acc) ==
    IF j > Len(s) \/ s[j] # "\"" THEN Fail
    ELSE
    LET key == StringBody(s, j + 1, <<>>) IN
    IF ~key.ok THEN Fail
    ELSE
    LET c == SkipWs(s, key.pos) IN
    IF c > Len(s) \/ s[c] # ":" THEN Fail
    ELSE
    LET v == ParseValue(s, SkipWs(s, c + 1)) IN
    IF ~v.ok THEN Fail
    ELSE
    LET acc2 == Put(acc, key.val, v.val)
        n == SkipWs(s, v.pos)
    IN  IF n > Len(s) THEN Fail
        ELSE IF s[n] = "}" THEN Ok(<<"obj", acc2>>, n + 1)
        ELSE IF s[n] = "," THEN ParseMembers(s, SkipWs(s, n + 1), acc2)
        ELSE Fail

ParseElements(s, j, acc) ==
    LET v == ParseValue(s, j) IN
    IF ~v.ok THEN Fail
    ELSE
    LET acc2 == Append(acc, v.val)
        n == SkipWs(s, v.pos)
    IN  IF n > Len(s) THEN Fail
        ELSE IF s[n] = "]" THEN Ok(<<"arr", acc2>>, n + 1)
        ELSE IF s[n] = "," THEN ParseElements(s, SkipWs(s, n + 1), acc2)
        ELSE Fail

\* json.loads(s): one value, white space around it, nothing else
JsonLoads(s) ==
    LET r == ParseValue(s, SkipWs(s, 1))
    IN  IF r.ok /\ SkipWs(s, r.pos) > Len(s) THEN r ELSE Fail

\* key in result, for result a parsed object
Has(d, key) == <<key>> \in DOMAIN d[2]


(***************************************************************************)
(* Command line and model output                                           *)
(***************************************************************************)
Modes == {"emotion", "fallacy"}
MODEL_SUBDIRS == {"qwen2.5-7b", "qwen2.5-14b", "qwen2.5-32b"}

ScanAlphabet == {"{", "}", "\"", " ", "x", EOS}
Texts == UNION {[1..k -> ScanAlphabet] : k \in 0..MaxLen}

Q(w) == <<"\"">> \o w \o <<"\"">>
KV(k, v) == Q(<<k>>) \o <<":", " ">> \o v
Obj1(m) == <<"{">> \o m \o <<"}">>
Obj2(m, n) == <<"{">> \o m \o <<",", " ">> \o n \o <<"}">>
Obj3(m, n, o) == <<"{">> \o m \o <<",", " ">> \o n \o <<",", " ">> \o o \o <<"}">>

\* Object literals a model may answer with.
Literals ==
    { Obj3(KV("primary", Q(<<"x">>)), KV("confidence", <<"0.8">>),
           KV("markers", <<"[">> \o Q(<<"x">>) \o <<"]">>)),
      Obj2(KV("primary", Q(<<"x">>)), KV("confidence", <<"0.8">>)),
      Obj2(KV("confidence", Q(<<"x">>)), KV("primary", <<"1">>)),
      Obj1(KV("primary", Q(<<"x">>))),
      Obj1(KV("confidence", <<"0.8">>)),
      <<"{", "}">>,
      Obj2(KV("fallacies", <<"[">> \o Obj1(KV("type", Q(<<"x">>))) \o <<"]">>),
           KV("enrichment", Q(<<"x">>))),
      Obj1(KV("fallacies", <<"[", "]">>)),
      Obj1(KV("enrichment", <<"1">>)),
      Obj1(KV("x", Obj1(KV("x", <<"1">>)))),
      Obj2(KV("primary", Q(<<"}">>)), KV("confidence", <<"0.8">>)),
      Obj2(KV("primary", Q(<<"{">>)), KV("confidence", <<"0.8">>)),
      Obj2(KV("primary", Q(<<"{", "x", "}">>)), KV("confidence", <<"0.8">>)),
      Obj2(KV("primary", Q(<<"x", "\\", "\"", "x">>)), KV("confidence", <<"0.8">>)) }

\* Prose around the literal.
Leads == {<<>>, <<"x", " ">>, <<"x", ":", "\n">>, <<"}", "x", " ">>}
Trails == {<<>>, <<"\n", "x">>, <<" ", "{", "}">>, <<" ", "}">>, <<EOS, "x", "}">>}

\* Exception messages
MsgNoJson == "No JSON found in model response"
MsgIncomplete == "No complete JSON found in model response"
MsgEmotionMissing == "Invalid emotion JSON: missing required fields"
MsgFallacyMissing == "Invalid fallacy JSON: missing required fields"
Raise(t, m) == [type |-> t, msg |-> m]

(***************************************************************************)
(* main() of mlx_analyze.py, up to the call of the analysis function       *)
(***************************************************************************)
AnalyzeInit ==
    /\ pc = "main"
    /\ mode = "<None>"
    /\ model = "<None>"
    /\ response = NoStr
    /\ embedded = <<>>
    /\ response_text = NoStr
    /\ json_start = Unset
    /\ json_end = Unset
    /\ brace_count = Unset
    /\ i = Unset
    /\ json_str = NoStr
    /\ result = None
    /\ exc = NoExc
    /\ ret = None
    /\ stdout = <<>>
    /\ stderr = <<>>
    /\ exit_code = Unset

\* parse_args() and the three log lines
MainStart ==
    /\ pc = "main"
    /\ mode' \in Modes
    /\ model' \in MODEL_SUBDIRS
    /\ stderr' = stderr \o << <<"log", "[mlx-analyze] Mode">>,
                              <<"log", "[mlx-analyze] Model">>,
                              <<"log", "[mlx-analyze] Text length">> >>
    /\ pc' = IF mode' = "emotion" THEN "e_generate" ELSE "f_generate"
    /\ UNCHANGED <<response, embedded, response_text, json_start,
                   json_end, brace_count, i, json_str, result, exc, ret,
                   stdout, exit_code>>
    /\ UNCHANGED aframe

(***************************************************************************)
(* analyze_emotion                                                         *)
(***************************************************************************)
\* the conditions and values of the function body
EmotionTruncate_Keep(t) == t
EmotionTruncate(t) ==
    IF EOS \in Range(t) THEN Strip(SplitFirst(t, EOS)) ELSE t

EmotionNoJsonError_Incomplete == Raise("ValueError", <<MsgIncomplete>>)
EmotionNoJsonError == Raise("ValueError", <<MsgNoJson>>)

EmotionClosed_Always(count) == TRUE
EmotionClosed(count) == count = 0

EmotionIncomplete_Strict(end, start) == end < start
EmotionIncomplete(end, start) == end <= start

EmotionMissing_Both(res) == ~Has(res, "primary") /\ ~Has(res, "confidence")
EmotionMissing_Typed(res) ==
    \/ ~Has(res, "primary") \/ ~Has(res, "confidence")
    \/ res[2][<<"confidence">>][1] # "num"
EmotionMissing(res) == ~Has(res, "primary") \/ ~Has(res, "confidence")

\* load() and generate(): an arbitrary response, or an exception
EmotionGenerate ==
    /\ pc = "e_generate"
    /\ \/ /\ \E r \in Texts : response' = r /\ embedded' = <<>>
          /\ pc' = "e_strip"
          /\ exc' = exc
       \/ /\ \E l \in Leads, o \in Literals, t \in Trails :
                response' = l \o o \o t /\ embedded' = o
          /\ pc' = "e_strip"
          /\ exc' = exc
       \/ /\ exc' = Raise("Exception", <<"model load or generation failed">>)
          /\ pc' = "e_except"
          /\ UNCHANGED <<response, embedded>>
    /\ UNCHANGED <<mode, model, response_text, json_start, json_end,
                   brace_count, i, json_str, result, ret, stdout, stderr,
                   exit_code>>
    /\ UNCHANGED aframe

EmotionStrip ==
    /\ pc = "e_strip"
    /\ response_text' = Strip(response)
    /\ pc' = "e_eos"
    /\ UNCHANGED <<mode, model, response, embedded, json_start, json_end,
                   brace_count, i, json_str, result, exc, ret, stdout, stderr,
                   exit_code>>
    /\ UNCHANGED aframe

EmotionEos ==
    /\ pc = "e_eos"
    /\ response_text' = EmotionTruncate(response_text)
    /\ pc' = "e_find"
    /\ UNCHANGED <<mode, model, response, embedded, json_start, json_end,
                   brace_count, i, json_str, result, exc, ret, stdout, stderr,
                   exit_code>>
    /\ UNCHANGED aframe

EmotionFind ==
    /\ pc = "e_find"
    /\ IF "{" \in Range(response_text)
       THEN /\ json_start' = Index(response_text, "{")
            /\ brace_count' = 0
            /\ json_end' = Index(response_text, "{")
            /\ i' = Index(response_text, "{")
            /\ pc' = "e_scan"
            /\ exc' = exc
       ELSE /\ exc' = EmotionNoJsonError
            /\ pc' = "e_except"
            /\ UNCHANGED <<json_start, brace_count, json_end, i>>
    /\ UNCHANGED <<mode, model, response, embedded, response_text, json_str,
                   result, ret, stdout, stderr, exit_code>>
    /\ UNCHANGED aframe

\* one iteration of the for loop, or its exhaustion
EmotionScan ==
    /\ pc = "e_scan"
    /\ IF i >= Len(response_text)
       THEN /\ pc' = "e_check"
            /\ UNCHANGED <<brace_count, json_end, i>>
       ELSE IF At(response_text, i) = "{"
       THEN /\ brace_count' = brace_count + 1
            /\ i' = i + 1
            /\ UNCHANGED <<json_end, pc>>
       ELSE IF At(response_text, i) = "}"
       THEN /\ brace_count' = brace_count - 1
            /\ IF EmotionClosed(brace_count - 1)
               THEN json_end' = i + 1 /\ pc' = "e_check" /\ i' = i
               ELSE i' = i + 1 /\ UNCHANGED <<json_end, pc>>
       ELSE /\ i' = i + 1
            /\ UNCHANGED <<brace_count, json_end, pc>>
    /\ UNCHANGED <<mode, model, response, embedded, response_text, json_start,
                   json_str, result, exc, ret, stdout, stderr, exit_code>>
    /\ UNCHANGED aframe

EmotionCheck ==
    /\ pc = "e_check"
    /\ IF EmotionIncomplete(json_end, json_start)
       THEN /\ exc' = Raise("ValueError", <<MsgIncomplete>>)
            /\ pc' = "e_except"
            /\ UNCHANGED json_str
       ELSE /\ json_str' = Slice(response_text, json_start, json_end)
            /\ pc' = "e_parse"
            /\ exc' = exc
    /\ UNCHANGED <<mode, model, response, embedded, response_text, json_start,
                   json_end, brace_count, i, result, ret, stdout, stderr,
                   exit_code>>
    /\ UNCHANGED aframe

EmotionParse ==
    /\ pc = "e_parse"
    /\ LET r == JsonLoads(json_str)
       IN  IF r.ok
           THEN result' = r.val /\ pc' = "e_validate" /\ exc' = exc
           ELSE /\ exc' = Raise("JSONDecodeError", <<"json decode error">>)
                /\ pc' = "e_except"
                /\ UNCHANGED result
    /\ UNCHANGED <<mode, model, response, embedded, response_text, json_start,
                   json_end, brace_count, i, json_str, ret, stdout, stderr,
                   exit_code>>
    /\ UNCHANGED aframe

EmotionValidate ==
    /\ pc = "e_validate"
    /\ IF EmotionMissing(result)
       THEN /\ exc' = Raise("ValueError", <<MsgEmotionMissing>>)
            /\ pc' = "e_except"
            /\ UNCHANGED ret
       ELSE /\ ret' = result
            /\ pc' = "main_out"
            /\ exc' = exc
    /\ UNCHANGED <<mode, model, response, embedded, response_text, json_start,
                   json_end, brace_count, i, json_str, result, stdout, stderr,
                   exit_code>>
    /\ UNCHANGED aframe

\* the two except clauses
EmotionExcept ==
    /\ pc = "e_except"
    /\ IF exc.type = "JSONDecodeError"
       THEN /\ stderr' = stderr \o << <<"log", "[ERROR] Failed to parse JSON">>,
                                     <<"log", "[ERROR] Raw response">> >>
            /\ exc' = Raise("RuntimeError",
                            <<"Emotion analysis failed: Invalid JSON - ">> \o exc.msg)
       ELSE /\ exc' = Raise("RuntimeError",
                            <<"Emotion analysis failed: ">> \o exc.msg)
            /\ stderr' = stderr
    /\ pc' = "main_except"
    /\ UNCHANGED <<mode, model, response, embedded, response_text, json_start,
                   json_end, brace_count, i, json_str, result, ret, stdout,
                   exit_code>>
    /\ UNCHANGED aframe

(***************************************************************************)
(* analyze_fallacy                                                         *)
(***************************************************************************)
\* the conditions and values of the function body
FallacyTruncate_Keep(t) == t
FallacyTruncate(t) ==
    IF EOS \in Range(t) THEN Strip(SplitFirst(t, EOS)) ELSE t

FallacyNoJsonError_Incomplete == Raise("ValueError", <<MsgIncomplete>>)
FallacyNoJsonError == Raise("ValueError", <<MsgNoJson>>)

FallacyClosed_Always(count) == TRUE
FallacyClosed(count) == count = 0

FallacyIncomplete_Strict(end, start) == end < start
FallacyIncomplete(end, start) == end <= start

FallacyMissing_Both(res) == ~Has(res, "fallacies") /\ ~Has(res, "enrichment")
FallacyMissing_Typed(res) ==
    \/ ~Has(res, "fallacies") \/ ~Has(res, "enrichment")
    \/ res[2][<<"enrichment">>][1] # "str"
FallacyMissing(res) == ~Has(res, "fallacies") \/ ~Has(res, "enrichment")

\* load() and generate(): an arbitrary response, or an exception
FallacyGenerate ==
    /\ pc = "f_generate"
    /\ \/ /\ \E r \in Texts : response' = r /\ embedded' = <<>>
          /\ pc' = "f_strip"
          /\ exc' = exc
       \/ /\ \E l \in Leads, o \in Literals, t \in Trails :
                response' = l \o o \o t /\ embedded' = o
          /\ pc' = "f_strip"
          /\ exc' = exc
       \/ /\ exc' = Raise("Exception", <<"model load or generation failed">>)
          /\ pc' = "f_except"
          /\ UNCHANGED <<response, embedded>>
    /\ UNCHANGED <<mode, model, response_text, json_start, json_end,
                   brace_count, i, json_str, result, ret, stdout, stderr,
                   exit_code>>
    /\ UNCHANGED aframe

FallacyStrip ==
    /\ pc = "f_strip"
    /\ response_text' = Strip(response)
    /\ pc' = "f_eos"
    /\ UNCHANGED <<mode, model, response, embedded, json_start, json_end,
                   brace_count, i, json_str, result, exc, ret, stdout, stderr,
                   exit_code>>
    /\ UNCHANGED aframe

FallacyEos ==
    /\ pc = "f_eos"
    /\ response_text' = FallacyTruncate(response_text)
    /\ pc' = "f_find"
    /\ UNCHANGED <<mode, model, response, embedded, json_start, json_end,
                   brace_count, i, json_str, result, exc, ret, stdout, stderr,
                   exit_code>>
    /\ UNCHANGED aframe

FallacyFind ==
    /\ pc = "f_find"
    /\ IF "{" \in Range(response_text)
       THEN /\ json_start' = Index(response_text, "{")
            /\ brace_count' = 0
            /\ json_end' = Index(response_text, "{")
            /\ i' = Index(response_text, "{")
            /\ pc' = "f_scan"
            /\ exc' = exc
       ELSE /\ exc' = FallacyNoJsonError
            /\ pc' = "f_except"
            /\ UNCHANGED <<json_start, brace_count, json_end, i>>
    /\ UNCHANGED <<mode, model, response, embedded, response_text, json_str,
                   result, ret, stdout, stderr, exit_code>>
    /\ UNCHANGED aframe

\* one iteration of the for loop, or its exhaustion
FallacyScan ==
    /\ pc = "f_scan"
    /\ IF i >= Len(response_text)
       THEN /\ pc' = "f_check"
            /\ UNCHANGED <<brace_count, json_end, i>>
       ELSE IF At(response_text, i) = "{"
       THEN /\ brace_count' = brace_count + 1
            /\ i' = i + 1
            /\ UNCHANGED <<json_end, pc>>
       ELSE IF At(response_text, i) = "}"
       THEN /\ brace_count' = brace_count - 1
            /\ IF FallacyClosed(brace_count - 1)
               THEN json_end' = i + 1 /\ pc' = "f_check" /\ i' = i
               ELSE i' = i + 1 /\ UNCHANGED <<json_end, pc>>
       ELSE /\ i' = i + 1
            /\ UNCHANGED <<brace_count, json_end, pc>>
    /\ UNCHANGED <<mode, model, response, embedded, response_text, json_start,
                   json_str, result, exc, ret, stdout, stderr, exit_code>>
    /\ UNCHANGED aframe

FallacyCheck ==
    /\ pc = "f_check"
    /\ IF FallacyIncomplete(json_end, json_start)
       THEN /\ exc' = Raise("ValueError", <<MsgIncomplete>>)
            /\ pc' = "f_except"
            /\ UNCHANGED json_str
       ELSE /\ json_str' = Slice(response_text, json_start, json_end)
            /\ pc' = "f_parse"
            /\ exc' = exc
    /\ UNCHANGED <<mode, model, response, embedded, response_text, json_start,
                   json_end, brace_count, i, result, ret, stdout, stderr,
                   exit_code>>
    /\ UNCHANGED aframe

FallacyParse ==
    /\ pc = "f_parse"
    /\ LET r == JsonLoads(json_str)
       IN  IF r.ok
           THEN result' = r.val /\ pc' = "f_validate" /\ exc' = exc
           ELSE /\ exc' = Raise("JSONDecodeError", <<"json decode error">>)
                /\ pc' = "f_except"
                /\ UNCHANGED result
    /\ UNCHANGED <<mode, model, response, embedded, response_text, json_start,
                   json_end, brace_count, i, json_str, ret, stdout, stderr,
                   exit_code>>
    /\ UNCHANGED aframe

FallacyValidate ==
    /\ pc = "f_validate"
    /\ IF FallacyMissing(result)
       THEN /\ exc' = Raise("ValueError", <<MsgFallacyMissing>>)
            /\ pc' = "f_except"
            /\ UNCHANGED ret
       ELSE /\ ret' = result
            /\ pc' = "main_out"
            /\ exc' = exc
    /\ UNCHANGED <<mode, model, response, embedded, response_text, json_start,
                   json_end, brace_count, i, json_str, result, stdout, stderr,
                   exit_code>>
    /\ UNCHANGED aframe

\* the single except clause
FallacyExcept ==
    /\ pc = "f_except"
    /\ exc' = Raise("RuntimeError", <<"Fallacy analysis failed: ">> \o exc.msg)
    /\ pc' = "main_except"
    /\ UNCHANGED <<mode, model, response, embedded, response_text, json_start,
                   json_end, brace_count, i, json_str, result, ret, stdout,
                   stderr, exit_code>>
    /\ UNCHANGED aframe

(***************************************************************************)
(* main(): the two ways out                                                *)
(***************************************************************************)
MainOutput ==
    /\ pc = "main_out"
    /\ stdout' = Append(stdout, <<"json", ret>>)
    /\ exit_code' = 0
    /\ pc' = "done"
    /\ UNCHANGED <<mode, model, response, embedded, response_text, json_start,
                   json_end, brace_count, i, json_str, result, exc, ret,
                   stderr>>
    /\ UNCHANGED aframe

\* as MainExcept, but a record parsed before the failure is printed too
MainExcept_Partial ==
    /\ pc = "main_except"
    /\ stderr' = Append(stderr, <<"error", exc.msg, mode, model>>)
    /\ stdout' = IF result # None THEN Append(stdout, <<"json", result>>) ELSE stdout
    /\ exit_code' = 1
    /\ pc' = "done"
    /\ UNCHANGED <<mode, model, response, embedded, response_text, json_start,
                   json_end, brace_count, i, json_str, result, exc, ret>>
    /\ UNCHANGED aframe

MainExcept ==
    /\ pc = "main_except"
    /\ stderr' = Append(stderr, <<"error", exc.msg, mode, model>>)
    /\ exit_code' = 1
    /\ pc' = "done"
    /\ UNCHANGED <<mode, model, response, embedded, response_text, json_start,
                   json_end, brace_count, i, json_str, result, exc, ret,
                   stdout>>
    /\ UNCHANGED aframe

AnalyzeNext ==
    \/ MainStart
    \/ EmotionGenerate \/ EmotionStrip \/ EmotionEos \/ EmotionFind
    \/ EmotionScan \/ EmotionCheck \/ EmotionParse \/ EmotionValidate
    \/ EmotionExcept
    \/ FallacyGenerate \/ FallacyStrip \/ FallacyEos \/ FallacyFind
    \/ FallacyScan \/ FallacyCheck \/ FallacyParse \/ FallacyValidate
    \/ FallacyExcept
    \/ MainOutput \/ MainExcept

(***************************************************************************)
(* mlx_transcribe.py.  Probabilities and log-probabilities are counted in  *)
(* hundredths (0.5 is 50, -0.8 is -80), durations in hundredths of a       *)
(* second.  An attribute of the engine's result is <<"absent">>,           *)
(* <<"none">> or <<"num", n>>; a string that is None is "<None>".          *)
(***************************************************************************)
Absent == <<"absent">>
NoneVal == <<"none">>
Num(n) == <<"num", n>>
IsNum(v) == v[1] = "num"

NoSpeechValues == {0, 30, 50, 51, 60, 80, 81, 90, 100}
LogProbValues == {-200, -90, -81, -80, -79, -10, 0}
Languages == {"<None>", "en"}
Durations == {0, 150}

\* segments as the engine reports them: start/end/text, any of them missing
SegmentLists ==
    { <<>>,
      << [start |-> 0, end |-> 70, text |-> "Hallo"] >>,
      << [start |-> 0, end |-> 70, text |-> "Hallo"], [start |-> 70] >> }

STTResults ==
    [ text : {"Hallo Welt"},
      language : Languages,
      segments : {Absent} \cup {<<"list", l>> : l \in SegmentLists},
      no_speech_prob : {Absent, NoneVal} \cup {Num(n) : n \in NoSpeechValues},
      avg_logprob : {Absent, NoneVal} \cup {Num(n) : n \in LogProbValues} ]

NoOutput == [text |-> "<None>", language |-> "<None>", segments |-> <<>>,
             speech_duration_sec |-> 0, total_duration_sec |-> 0]
NoResult == [text |-> "<None>", language |-> "<None>", segments |-> Absent,
             no_speech_prob |-> Absent, avg_logprob |-> Absent]

\* getattr(obj, name, default)
GetAttr(v, default) == IF v = Absent THEN default ELSE v
\* a or b, for strings
OrElse(a, b) == IF a \in {"<None>", ""} THEN b ELSE a

TranscribeInit ==
    /\ t_pc = "main"
    /\ args_language = "<None>"
    /\ stt = NoResult
    /\ no_speech_prob = NoneVal
    /\ avg_logprob = NoneVal
    /\ is_hallucination = FALSE
    /\ audio_duration = 0
    /\ output = NoOutput
    /\ t_stdout = <<>>
    /\ t_stderr = <<>>
    /\ t_exit = Unset

\* parse_args() and the three checks before the try block
TranscribeStart ==
    /\ t_pc = "main"
    /\ args_language' \in {"<None>", "de"}
    /\ \E audio_exists \in BOOLEAN, model_exists \in BOOLEAN :
          IF audio_exists /\ model_exists
          THEN t_pc' = "transcribe" /\ UNCHANGED <<t_stderr, t_exit>>
          ELSE /\ t_stderr' = Append(t_stderr,
                     <<"error", IF audio_exists THEN "Model not found"
                                ELSE "Audio file not found">>)
               /\ t_exit' = 1
               /\ t_pc' = "done"
    /\ UNCHANGED <<stt, no_speech_prob, avg_logprob, is_hallucination,
                   audio_duration, output, t_stdout>>
    /\ UNCHANGED tframe

\* engine.load() and engine.transcribe(): a result, or an exception
Transcribe ==
    /\ t_pc = "transcribe"
    /\ \/ /\ stt' \in STTResults
          /\ t_pc' = "signals"
          /\ UNCHANGED t_stderr
       \/ /\ t_pc' = "except"
          /\ t_stderr' = t_stderr
          /\ UNCHANGED stt
    /\ UNCHANGED <<args_language, no_speech_prob, avg_logprob,
                   is_hallucination, audio_duration, output, t_stdout, t_exit>>
    /\ UNCHANGED tframe

GateSignals ==
    /\ t_pc = "signals"
    /\ no_speech_prob' = GetAttr(stt.no_speech_prob, Num(0))
    /\ avg_logprob' = GetAttr(stt.avg_logprob, Num(0))
    /\ t_pc' = "gate"
    /\ UNCHANGED <<args_language, stt, is_hallucination, audio_duration,
                   output, t_stdout, t_stderr, t_exit>>
    /\ UNCHANGED tframe

\* the condition of the hallucination check, on numbers
IsHallucination_Ge(nsp, alp) == (nsp >= 50 /\ alp < -80) \/ nsp > 80
IsHallucination(nsp, alp) == (nsp > 50 /\ alp < -80) \/ nsp > 80

\* comparing None with a number raises TypeError; "and" does not evaluate
\* its right operand when the left one is false
GateRaises(nsp, alp) ==
    \/ ~IsNum(nsp)
    \/ nsp[2] > 50 /\ ~IsNum(alp)

HallucinationCheck ==
    /\ t_pc = "gate"
    /\ IF GateRaises(no_speech_prob, avg_logprob)
       THEN /\ t_pc' = "except"
            /\ UNCHANGED <<is_hallucination, t_stderr>>
       ELSE LET alp == IF IsNum(avg_logprob) THEN avg_logprob[2] ELSE 0
                hit == IsHallucination(no_speech_prob[2], alp)
            IN  /\ is_hallucination' = hit
                /\ t_stderr' = IF hit
                               THEN Append(t_stderr, <<"warning", "Hallucination detected">>)
                               ELSE t_stderr
                /\ t_pc' = "duration"
    /\ UNCHANGED <<args_language, stt, no_speech_prob, avg_logprob,
                   audio_duration, output, t_stdout, t_exit>>
    /\ UNCHANGED tframe

\* get_audio_duration(): frames / rate, or 0.0 and a warning
GetAudioDuration ==
    /\ t_pc = "duration"
    /\ \/ /\ audio_duration' \in Durations
          /\ UNCHANGED t_stderr
       \/ /\ audio_duration' = 0
          /\ t_stderr' = Append(t_stderr, <<"warning", "Failed to get audio duration">>)
    /\ t_pc' = "output"
    /\ UNCHANGED <<args_language, stt, no_speech_prob, avg_logprob,
                   is_hallucination, output, t_stdout, t_exit>>
    /\ UNCHANGED tframe

\* the text of the result
OutputText_Raw(hallucination, r) == r.text
OutputText(hallucination, r) == IF hallucination THEN "" ELSE r.text

BuildOutput ==
    /\ t_pc = "output"
    /\ output' = [text |-> OutputText(is_hallucination, stt),
                  language |-> OrElse(OrElse(stt.language, args_language), "de"),
                  segments |-> <<>>,
                  speech_duration_sec |-> audio_duration,
                  total_duration_sec |-> audio_duration]
    /\ t_pc' = "segments"
    /\ UNCHANGED <<args_language, stt, no_speech_prob, avg_logprob,
                   is_hallucination, audio_duration, t_stdout, t_stderr, t_exit>>
    /\ UNCHANGED tframe

\* one segment in the output format, missing fields defaulted
ConvertSegment(seg) ==
    [start |-> IF "start" \in DOMAIN seg THEN seg.start ELSE 0,
     end |-> IF "end" \in DOMAIN seg THEN seg.end ELSE 0,
     text |-> IF "text" \in DOMAIN seg THEN seg.text ELSE ""]
ConvertSegments(l) == [k \in DOMAIN l |-> ConvertSegment(l[k])]

FillSegments ==
    /\ t_pc = "segments"
    /\ IF ~is_hallucination /\ stt.segments # Absent /\ stt.segments[2] # <<>>
       THEN output' = [output EXCEPT !.segments = ConvertSegments(stt.segments[2])]
       ELSE output' = output
    /\ t_pc' = "print"
    /\ UNCHANGED <<args_language, stt, no_speech_prob, avg_logprob,
                   is_hallucination, audio_duration, t_stdout, t_stderr, t_exit>>
    /\ UNCHANGED tframe

PrintOutput ==
    /\ t_pc = "print"
    /\ t_stdout' = Append(t_stdout, output)
    /\ t_exit' = 0
    /\ t_pc' = "done"
    /\ UNCHANGED <<args_language, stt, no_speech_prob, avg_logprob,
                   is_hallucination, audio_duration, output, t_stderr>>
    /\ UNCHANGED tframe

TranscribeExcept ==
    /\ t_pc = "except"
    /\ t_stderr' = Append(t_stderr, <<"error", "exception">>)
    /\ t_exit' = 1
    /\ t_pc' = "done"
    /\ UNCHANGED <<args_language, stt, no_speech_prob, avg_logprob,
                   is_hallucination, audio_duration, output, t_stdout>>
    /\ UNCHANGED tframe

TranscribeNext ==
    \/ TranscribeStart \/ Transcribe \/ GateSignals \/ HallucinationCheck
    \/ GetAudioDuration \/ BuildOutput \/ FillSegments \/ PrintOutput
    \/ TranscribeExcept

(***************************************************************************)
(* validate-quantized-model.py                                             *)
(*                                                                         *)
(* A float is an integer number of millionths (the script prints six       *)
(* decimals).  An embedding is a short vector of integers; the vectors     *)
(* enumerated have whole-number lengths, so that the cosine is exact.      *)
(***************************************************************************)
\* number of test sentences compared in one run
NumSentences == 3

Scale == 1000000
SIMILARITY_THRESHOLD == 980000

MsgZeroMagnitude == "Cannot compute similarity for zero-magnitude vectors"
MsgDimension == "Vector dimension mismatch"
MsgInference == "ONNX inference failed"
MsgAllFailed == "All embedding comparisons failed"

RECURSIVE SumSeq(_)
SumSeq(q) == IF q = <<>> THEN 0 ELSE q[1] + SumSeq(Tail(q))

Dot(a, b) == SumSeq([k \in DOMAIN a |-> a[k] * b[k]])
Sqrt(n) == CHOOSE r \in 0..n : r * r <= n /\ n < (r + 1) * (r + 1)
Norm(a) == Sqrt(Dot(a, a))

Returned(v) == [raised |-> "", val |-> v]
Raised(m) == [raised |-> m, val |-> <<>>]

cosine_similarity(a, b) ==
    IF Len(a) # Len(b) THEN Raised(MsgDimension)
    ELSE IF Norm(a) = 0 \/ Norm(b) = 0 THEN Raised(MsgZeroMagnitude)
    ELSE Returned((Scale * Dot(a, b)) \div (Norm(a) * Norm(b)))

\* what embed() can give for one sentence: a pooled vector, or RuntimeError
Embeddings == {<<3, 4>>, <<4, 3>>, <<5, 0>>, <<0, 0>>, <<5>>}
EmbedResults == {Returned(e) : e \in Embeddings} \cup {Raised(MsgInference)}

\* lines 192-196: the body of the try block for one sentence
Compare(fp32, int8) ==
    IF fp32.raised # "" THEN fp32
    ELSE IF int8.raised # "" THEN int8
    ELSE cosine_similarity(fp32.val, int8.val)

\* as Mean, but the lowest similarity stands for all
Mean_Lowest(sims) == Min(Range(sims))
\* np.mean
Mean(sims) == SumSeq(sims) \div Len(sims)

ValidateInit ==
    /\ v_pc = "main"
    /\ sentence = 0
    /\ similarities = <<>>
    /\ avg = 0
    /\ min_sim = 0
    /\ max_sim = 0
    /\ v_exc = NoExc
    /\ v_stdout = <<>>
    /\ v_stderr = <<>>
    /\ v_exit = Unset

\* validate_models, lines 146-153
CheckModelFiles ==
    /\ v_pc = "main"
    /\ \E fp32_exists \in BOOLEAN, int8_exists \in BOOLEAN :
          IF ~fp32_exists
          THEN /\ v_exc' = Raise("FileNotFoundError", <<"FP32 model not found">>)
               /\ v_pc' = "except"
               /\ UNCHANGED v_stdout
          ELSE IF ~int8_exists
          THEN /\ v_exc' = Raise("FileNotFoundError", <<"INT8 model not found">>)
               /\ v_pc' = "except"
               /\ UNCHANGED v_stdout
          ELSE /\ v_stdout' = Append(v_stdout, <<"header">>)
               /\ v_pc' = "tokenizer"
               /\ UNCHANGED v_exc
    /\ UNCHANGED <<sentence, similarities, avg, min_sim, max_sim, v_stderr, v_exit>>
    /\ UNCHANGED vframe

\* lines 155-161
LoadTokenizer ==
    /\ v_pc = "tokenizer"
    /\ \E loaded \in BOOLEAN :
          IF loaded
          THEN /\ v_stdout' = v_stdout \o << <<"[1/3]">>, <<"tokenizer loaded">> >>
               /\ v_pc' = "models"
               /\ UNCHANGED v_exc
          ELSE /\ v_stdout' = Append(v_stdout, <<"[1/3]">>)
               /\ v_exc' = Raise("RuntimeError", <<"Tokenizer load failed">>)
               /\ v_pc' = "except"
    /\ UNCHANGED <<sentence, similarities, avg, min_sim, max_sim, v_stderr, v_exit>>
    /\ UNCHANGED vframe

\* lines 163-188
LoadModels ==
    /\ v_pc = "models"
    /\ \E fp32_loaded \in BOOLEAN, int8_loaded \in BOOLEAN :
          IF ~fp32_loaded
          THEN /\ v_stdout' = Append(v_stdout, <<"[2/3]">>)
               /\ v_exc' = Raise("RuntimeError", <<"FP32 model load failed">>)
               /\ v_pc' = "except"
               /\ UNCHANGED <<sentence, similarities>>
          ELSE IF ~int8_loaded
          THEN /\ v_stdout' = v_stdout \o << <<"[2/3]">>, <<"FP32 model loaded">> >>
               /\ v_exc' = Raise("RuntimeError", <<"INT8 model load failed">>)
               /\ v_pc' = "except"
               /\ UNCHANGED <<sentence, similarities>>
          ELSE /\ v_stdout' = v_stdout \o << <<"[2/3]">>, <<"FP32 model loaded">>,
                                            <<"INT8 model loaded">>, <<"[3/3]">> >>
               /\ similarities' = <<>>
               /\ sentence' = 0
               /\ v_pc' = "loop"
               /\ UNCHANGED v_exc
    /\ UNCHANGED <<avg, min_sim, max_sim, v_stderr, v_exit>>
    /\ UNCHANGED vframe

\* lines 189-205: one round of the loop over TEST_SENTENCES
CompareSentence ==
    /\ v_pc = "loop"
    /\ sentence < NumSentences
    /\ \E fp32_emb \in EmbedResults, int8_emb \in EmbedResults :
          LET sim == Compare(fp32_emb, int8_emb)
          IN  IF sim.raised = ""
              THEN /\ similarities' = Append(similarities, sim.val)
                   /\ v_stdout' = Append(v_stdout,
                          <<"similarity", sentence, sim.val,
                            sim.val >= SIMILARITY_THRESHOLD>>)
              ELSE /\ v_stdout' = Append(v_stdout,
                          <<"Failed to process", sentence, sim.raised>>)
                   /\ UNCHANGED similarities
    /\ sentence' = sentence + 1
    /\ UNCHANGED <<v_pc, avg, min_sim, max_sim, v_exc, v_stderr, v_exit>>
    /\ UNCHANGED vframe

\* lines 207-221
Statistics ==
    /\ v_pc = "loop"
    /\ sentence = NumSentences
    /\ IF similarities = <<>>
       THEN /\ v_exc' = Raise("RuntimeError", <<MsgAllFailed>>)
            /\ v_pc' = "except"
            /\ UNCHANGED <<avg, min_sim, max_sim, v_stdout>>
       ELSE /\ avg' = Mean(similarities)
            /\ min_sim' = Min(Range(similarities))
            /\ max_sim' = Max(Range(similarities))
            /\ v_stdout' = Append(v_stdout,
                   <<"statistics", avg', min_sim', max_sim'>>)
            /\ v_pc' = "verdict"
            /\ UNCHANGED v_exc
    /\ UNCHANGED <<sentence, similarities, v_stderr, v_exit>>
    /\ UNCHANGED vframe

\* main, lines 231-243
Verdict ==
    /\ v_pc = "verdict"
    /\ IF avg >= SIMILARITY_THRESHOLD
       THEN /\ v_stdout' = Append(v_stdout, <<"PASS", avg>>)
            /\ v_exit' = 0
       ELSE /\ v_stdout' = Append(v_stdout, <<"FAIL", avg>>)
            /\ v_exit' = 1
    /\ v_pc' = "done"
    /\ UNCHANGED <<sentence, similarities, avg, min_sim, max_sim, v_exc, v_stderr>>
    /\ UNCHANGED vframe

\* main, lines 245-254
ValidateExcept ==
    /\ v_pc = "except"
    /\ v_stderr' = IF v_exc.type = "FileNotFoundError"
                   THEN v_stderr \o << <<"ERROR", v_exc.msg>>,
                                       <<"Run quantize-onnx-model.py first">> >>
                   ELSE v_stderr \o << <<"ERROR", v_exc.msg>>, <<"traceback">> >>
    /\ v_exit' = 2
    /\ v_pc' = "done"
    /\ UNCHANGED <<sentence, similarities, avg, min_sim, max_sim, v_exc, v_stdout>>
    /\ UNCHANGED vframe

ValidateNext ==
    \/ CheckModelFiles \/ LoadTokenizer \/ LoadModels \/ CompareSentence
    \/ Statistics \/ Verdict \/ ValidateExcept

(***************************************************************************)
(* quantize-onnx-model.py                                                  *)
(*                                                                         *)
(* A size is a whole number of megabytes, the reduction a whole number of  *)
(* tenths of a percent.                                                    *)
(***************************************************************************)
INPUT_MODEL == "model.onnx"
OUTPUT_MODEL == "model_quantized.onnx"
BACKUP_MODEL == "model_fp32_backup.onnx"

Sizes == {100, 200, 300, 470, 500}

MsgValidation == "Model validation failed"
MsgQuantizedValidation == "Quantized model validation failed"

\* what the try blocks at 83-88 and 110-117 can meet before the size is read
LoadOutcomes == {"ok", "onnx.load", "check_model"}

QuantizeInit ==
    /\ q_pc = "main"
    /\ files = {}
    /\ original_size = 0
    /\ quantized_size = 0
    /\ reduction = 0
    /\ q_exc = NoExc
    /\ q_stdout = <<>>
    /\ q_stderr = <<>>
    /\ q_exit = Unset

\* quantize_model, lines 63-69; the directory is as the run finds it
CheckInputModel ==
    /\ q_pc = "main"
    /\ \E found \in SUBSET {INPUT_MODEL, OUTPUT_MODEL, BACKUP_MODEL} :
          /\ files' = found
          /\ IF INPUT_MODEL \notin found
             THEN /\ q_exc' = Raise("FileNotFoundError", <<"Input model not found">>)
                  /\ q_pc' = "except"
             ELSE /\ q_pc' = "backup"
                  /\ UNCHANGED q_exc
    /\ q_stdout' = Append(q_stdout, <<"header">>)
    /\ UNCHANGED <<original_size, quantized_size, reduction, q_stderr, q_exit>>
    /\ UNCHANGED qframe

\* lines 71-79
CreateBackup ==
    /\ q_pc = "backup"
    /\ \E copied \in BOOLEAN :
          IF copied
          THEN /\ files' = files \cup {BACKUP_MODEL}
               /\ q_stdout' = q_stdout \o << <<"[1/4]">>, <<"Backup created">> >>
               /\ q_pc' = "validate"
               /\ UNCHANGED q_exc
          ELSE /\ q_stdout' = Append(q_stdout, <<"[1/4]">>)
               /\ q_exc' = Raise("RuntimeError", <<"Backup creation failed">>)
               /\ q_pc' = "except"
               /\ UNCHANGED files
    /\ UNCHANGED <<original_size, quantized_size, reduction, q_stderr, q_exit>>
    /\ UNCHANGED qframe

\* lines 81-90
ValidateOriginal ==
    /\ q_pc = "validate"
    /\ \E outcome \in LoadOutcomes, size \in Sizes :
          IF outcome = "ok"
          THEN /\ original_size' = size
               /\ q_stdout' = q_stdout \o << <<"[2/4]">>, <<"Model structure: OK">>,
                                            <<"Original size", size>> >>
               /\ q_pc' = "quantize"
               /\ UNCHANGED q_exc
          ELSE /\ q_stdout' = Append(q_stdout, <<"[2/4]">>)
               /\ q_exc' = Raise("RuntimeError", <<MsgValidation, outcome>>)
               /\ q_pc' = "except"
               /\ UNCHANGED original_size
    /\ UNCHANGED <<files, quantized_size, reduction, q_stderr, q_exit>>
    /\ UNCHANGED qframe

\* lines 92-106
Quantize ==
    /\ q_pc = "quantize"
    /\ \E written \in BOOLEAN :
          IF written
          THEN /\ files' = files \cup {OUTPUT_MODEL}
               /\ q_stdout' = q_stdout \o << <<"[3/4]">>, <<"Quantization completed">> >>
               /\ q_pc' = "validate_quantized"
               /\ UNCHANGED q_exc
          ELSE /\ q_stdout' = Append(q_stdout, <<"[3/4]">>)
               /\ q_exc' = Raise("RuntimeError", <<"Quantization failed">>)
               /\ q_pc' = "except"
               /\ UNCHANGED files
    /\ UNCHANGED <<original_size, quantized_size, reduction, q_stderr, q_exit>>
    /\ UNCHANGED qframe

\* lines 108-121
ValidateQuantized ==
    /\ q_pc = "validate_quantized"
    /\ \E outcome \in LoadOutcomes, size \in Sizes :
          IF outcome = "ok"
          THEN /\ quantized_size' = size
               /\ reduction' = ((original_size - size) * 1000) \div original_size
               /\ q_stdout' = q_stdout \o << <<"[4/4]">>, <<"Model structure: OK">>,
                                            <<"Quantized size", size>> >>
               /\ q_pc' = "summary"
               /\ UNCHANGED q_exc
          ELSE /\ q_stdout' = Append(q_stdout, <<"[4/4]">>)
               /\ q_exc' = Raise("RuntimeError", <<MsgQuantizedValidation, outcome>>)
               /\ q_pc' = "except"
               /\ UNCHANGED <<quantized_size, reduction>>
    /\ UNCHANGED <<files, original_size, q_stderr, q_exit>>
    /\ UNCHANGED qframe

\* main, lines 133-145
PrintSummary ==
    /\ q_pc = "summary"
    /\ q_stdout' = Append(q_stdout,
           <<"QUANTIZATION SUMMARY", original_size, quantized_size, reduction>>)
    /\ q_exit' = 0
    /\ q_pc' = "done"
    /\ UNCHANGED <<files, original_size, quantized_size, reduction, q_exc, q_stderr>>
    /\ UNCHANGED qframe

\* main, lines 147-156
QuantizeExcept ==
    /\ q_pc = "except"
    /\ q_stderr' = IF q_exc.type = "FileNotFoundError"
                   THEN q_stderr \o << <<"ERROR", q_exc.msg>>,
                                       <<"Make sure the input model exists">> >>
                   ELSE q_stderr \o << <<"ERROR", q_exc.msg>>, <<"traceback">> >>
    /\ q_exit' = 2
    /\ q_pc' = "done"
    /\ UNCHANGED <<files, original_size, quantized_size, reduction, q_exc, q_stdout>>
    /\ UNCHANGED qframe

QuantizeNext ==
    \/ CheckInputModel \/ CreateBackup \/ ValidateOriginal \/ Quantize
    \/ ValidateQuantized \/ PrintSummary \/ QuantizeExcept

(***************************************************************************)
(* mlx_server_dev.py: the /transcribe handler                              *)
(*                                                                         *)
(* A file name is a sequence of lexemes in which "." is a lexeme of its    *)
(* own; an extension is the two lexemes <<".", "wav">>.  Requests are      *)
(* handled one after the other; each handler has its own temporary file.   *)
(***************************************************************************)
\* requests received in one run of the server
MaxRequests == 2

ALLOWED_EXTENSIONS == {<<".", "wav">>, <<".", "mp3">>, <<".", "m4a">>, <<".", "ogg">>}

\* str.lower on one lexeme
LowerLexeme(x) ==
    IF x = "WAV" THEN "wav" ELSE IF x = "Mp3" THEN "mp3" ELSE x
Lower(q) == [k \in DOMAIN q |-> LowerLexeme(q[k])]

\* Path(name).suffix: from the last ".", unless that is the first or the
\* last character of the name
Suffix(name) ==
    LET dots == {k \in DOMAIN name : name[k] = "."}
    IN  IF dots = {} THEN <<>>
        ELSE LET d == Max(dots)
             IN  IF 1 < d /\ d < Len(name) THEN SubSeq(name, d, Len(name))
                 ELSE <<>>

Allowed(e) == e \in ALLOWED_EXTENSIONS

Filenames ==
    { <<>>, <<"a">>, <<".", "wav">>,
      <<"a", ".", "wav">>, <<"a", ".", "WAV">>, <<"a", ".", "Mp3">>,
      <<"a", ".", "m4a">>, <<"a", ".", "ogg">>, <<"a", ".", "txt">>,
      <<"a", ".", "wav", ".", "exe">>, <<"a", ".", "exe", ".", "ogg">> }

\* request.files and request.form
Requests ==
    [ has_audio : {FALSE}, filename : {<<>>}, form : {{}} ]
    \cup [ has_audio : {TRUE}, filename : Filenames,
           form : {{}, {"model"}, {"model", "language"}} ]
NoRequest == [has_audio |-> FALSE, filename |-> <<>>, form |-> {"<None>"}]

FormGet(req, key, value, default) == IF key \in req.form THEN value ELSE default

NoPath == <<>>
TempName(n, e) == <<"tmp", n>> \o e

\* what mlx_transcribe.py can hand back through subprocess.run
NoCompleted == [returncode |-> Unset, stdout |-> <<>>, stderr |-> <<>>]
Completed ==
    [ returncode : {0},
      stdout : { Obj1(KV("text", Q(<<"x">>))), <<>>, <<"{">> \o Q(<<"text">>) },
      stderr : {<<>>} ]
    \cup [ returncode : {1}, stdout : {<<>>},
           stderr : { Obj1(KV("error", Q(<<"x">>))) } ]

NoResponse == <<0, <<>>>>

ServerInit ==
    /\ s_pc = "idle"
    /\ handled = 0
    /\ request = NoRequest
    /\ ext = <<>>
    /\ s_model = "<None>"
    /\ s_language = "<None>"
    /\ tmp = NoPath
    /\ tmp_path = NoPath
    /\ tmpfiles = {}
    /\ s_result = NoCompleted
    /\ s_exc = NoExc
    /\ pending = NoResponse
    /\ http = NoResponse

\* a POST /transcribe arrives: line 35, fresh locals
Receive ==
    /\ s_pc \in {"idle", "returned"}
    /\ handled < MaxRequests
    /\ handled' = handled + 1
    /\ request' \in Requests
    /\ ext' = <<>>
    /\ s_model' = "<None>"
    /\ s_language' = "<None>"
    /\ tmp' = NoPath
    /\ tmp_path' = NoPath
    /\ s_result' = NoCompleted
    /\ s_exc' = NoExc
    /\ pending' = NoResponse
    /\ http' = NoResponse
    /\ s_pc' = "check_audio"
    /\ UNCHANGED tmpfiles
    /\ UNCHANGED sframe

\* lines 36-39
CheckAudio ==
    /\ s_pc = "check_audio"
    /\ IF ~request.has_audio
       THEN /\ http' = <<400, <<"No audio file provided">>>>
            /\ s_pc' = "returned"
       ELSE /\ s_pc' = "check_ext"
            /\ UNCHANGED http
    /\ UNCHANGED <<handled, request, ext, s_model, s_language, tmp, tmp_path,
                   tmpfiles, s_result, s_exc, pending>>
    /\ UNCHANGED sframe

\* lines 41-49
CheckExtension ==
    /\ s_pc = "check_ext"
    /\ ext' = Lower(Suffix(request.filename))
    /\ IF ~Allowed(ext')
       THEN /\ http' = <<400, <<"Invalid file type">> \o ext'>>
            /\ s_pc' = "returned"
            /\ UNCHANGED <<s_model, s_language>>
       ELSE /\ s_model' = FormGet(request, "model", "large-v3", "german-turbo")
            /\ s_language' = FormGet(request, "language", "en", "de")
            /\ s_pc' = "create"
            /\ UNCHANGED http
    /\ UNCHANGED <<handled, request, tmp, tmp_path, tmpfiles, s_result, s_exc,
                   pending>>
    /\ UNCHANGED sframe

\* line 52: NamedTemporaryFile(suffix=ext, delete=False)
CreateTemp ==
    /\ s_pc = "create"
    /\ tmp' = TempName(handled, ext)
    /\ tmpfiles' = tmpfiles \cup {tmp'}
    /\ s_pc' = "save"
    /\ UNCHANGED <<handled, request, ext, s_model, s_language, tmp_path,
                   s_result, s_exc, pending, http>>
    /\ UNCHANGED sframe

\* lines 53-54; an exception of audio.save leaves the handler before the try
SaveUpload ==
    /\ s_pc = "save"
    /\ \E saved \in BOOLEAN :
          IF saved
          THEN /\ tmp_path' = tmp
               /\ s_pc' = "run"
               /\ UNCHANGED <<s_exc, http>>
          ELSE /\ s_exc' = Raise("OSError", <<"audio.save">>)
               /\ http' = <<500, <<"Internal Server Error">>>>
               /\ s_pc' = "returned"
               /\ UNCHANGED tmp_path
    /\ UNCHANGED <<handled, request, ext, s_model, s_language, tmp, tmpfiles,
                   s_result, pending>>
    /\ UNCHANGED sframe

\* lines 56-66
RunSubprocess ==
    /\ s_pc = "run"
    /\ \/ /\ s_result' \in Completed
          /\ s_pc' = "returncode"
          /\ UNCHANGED s_exc
       \/ /\ s_exc' = Raise("TimeoutExpired", <<"timeout">>)
          /\ s_pc' = "except"
          /\ UNCHANGED s_result
       \/ /\ s_exc' = Raise("OSError", <<"subprocess.run">>)
          /\ s_pc' = "finally"
          /\ UNCHANGED s_result
    /\ UNCHANGED <<handled, request, ext, s_model, s_language, tmp, tmp_path,
                   tmpfiles, pending, http>>
    /\ UNCHANGED sframe

\* lines 68-73
CheckReturnCode ==
    /\ s_pc = "returncode"
    /\ IF s_result.returncode # 0
       THEN /\ pending' = <<500, s_result.stderr>>
            /\ UNCHANGED s_exc
       ELSE LET parsed == JsonLoads(s_result.stdout)
            IN  IF parsed.ok
                THEN /\ pending' = <<200, parsed.val>>
                     /\ UNCHANGED s_exc
                ELSE /\ s_exc' = Raise("JSONDecodeError", <<"json decode error">>)
                     /\ UNCHANGED pending
    /\ s_pc' = "finally"
    /\ UNCHANGED <<handled, request, ext, s_model, s_language, tmp, tmp_path,
                   tmpfiles, s_result, http>>
    /\ UNCHANGED sframe

\* lines 75-76
ExceptTimeout ==
    /\ s_pc = "except"
    /\ pending' = <<504, <<"Transcription timeout (>30s)">>>>
    /\ s_exc' = NoExc
    /\ s_pc' = "finally"
    /\ UNCHANGED <<handled, request, ext, s_model, s_language, tmp, tmp_path,
                   tmpfiles, s_result, http>>
    /\ UNCHANGED sframe

\* as Unlink, but the file stays
Unlink_Keep(fs, path) == fs
\* lines 80-81: os.path.exists and os.unlink
Unlink(fs, path) == fs \ {path}

\* lines 78-81, then the return that was waiting, or the exception goes on
\* to Flask, which answers 500
Finally ==
    /\ s_pc = "finally"
    /\ tmpfiles' = Unlink(tmpfiles, tmp_path)
    /\ http' = IF s_exc = NoExc THEN pending
               ELSE <<500, <<"Internal Server Error">>>>
    /\ s_pc' = "returned"
    /\ UNCHANGED <<handled, request, ext, s_model, s_language, tmp, tmp_path,
                   s_result, s_exc, pending>>
    /\ UNCHANGED sframe

ServerNext ==
    \/ Receive \/ CheckAudio \/ CheckExtension \/ CreateTemp \/ SaveUpload
    \/ RunSubprocess \/ CheckReturnCode \/ ExceptTimeout \/ Finally

Init ==
    /\ AnalyzeInit
    /\ TranscribeInit
    /\ ValidateInit
    /\ QuantizeInit
    /\ ServerInit

\* the analysis CLI
Spec == Init /\ [][AnalyzeNext]_vars

\* the transcription CLI
SpecTranscribe == Init /\ [][TranscribeNext]_vars

\* the accuracy validation script
SpecValidate == Init /\ [][ValidateNext]_vars

\* the quantization script
SpecQuantize == Init /\ [][QuantizeNext]_vars

\* the development server
SpecServer == Init /\ [][ServerNext]_vars

(***************************************************************************)
(* Notions the properties are stated with                                  *)
(***************************************************************************)
\* positions of the analysis function after the brace scan was judged
AfterCheck == {"e_parse", "e_validate", "e_except", "f_parse", "f_validate",
               "f_except", "main_out", "main_except", "done"}
\* positions after the marker truncation
AfterEos == AfterCheck \cup {"e_find", "e_scan", "e_check",
                             "f_find", "f_scan", "f_check"}
Failed == {"e_except", "f_except", "main_except", "done"}

HasBrace(s) == "{" \in Range(s)
FirstBrace(s) == Min({k \in 0..(Len(s) - 1) : At(s, k) = "{"})
Count(s, c, a, b) == Cardinality({k \in a..b : At(s, k) = c})
\* nesting depth after the lexeme at e, counted from a
Depth(s, a, e) == Count(s, "{", a, e) - Count(s, "}", a, e)
\* the closing braces at which the depth counted from a is back at 0
Closes(s, a) == {e \in a..(Len(s) - 1) : At(s, e) = "}" /\ Depth(s, a, e) = 0}

\* the failure in flight carries message m (innermost fragment)
ErrorIs(m) ==
    /\ exc.type \in {"ValueError", "RuntimeError"}
    /\ exc.msg # <<>>
    /\ exc.msg[Len(exc.msg)] = m
\* the process ended in failure: nothing on stdout, exit status 1
EndsInFailure == pc = "done" => (exit_code = 1 /\ stdout = <<>>)

(***************************************************************************)
(* C1: whenever a span is selected, it starts at the first "{" of the text *)
(* and ends one past the first "}" at which the depth counted from there   *)
(* is back at 0; and a span is selected whenever such a "}" exists.        *)
(***************************************************************************)
C1_FirstBalancedSpan ==
    /\ json_start # Unset => json_start = FirstBrace(response_text)
    /\ json_str # NoStr =>
          /\ Closes(response_text, json_start) # {}
          /\ json_end = Min(Closes(response_text, json_start)) + 1
          /\ json_str = Slice(response_text, json_start, json_end)
    /\ (pc \in AfterCheck /\ HasBrace(response_text)
          /\ Closes(response_text, FirstBrace(response_text)) # {})
       => json_str # NoStr

\* a nested object after some prose, followed by a second object
C1_Witness ==
    /\ pc = "done"
    /\ json_str # NoStr
    /\ json_start > 0
    /\ \E k \in (json_start + 1)..(json_end - 1) : At(response_text, k) = "{"
    /\ \E k \in json_end..(Len(response_text) - 1) : At(response_text, k) = "{"

(***************************************************************************)
(* C2: the span is the one a scan that skips string literals (tracking     *)
(* quotes and backslash escapes) selects.                                  *)
(***************************************************************************)
RECURSIVE QuoteAwareEnd(_, _, _, _)
QuoteAwareEnd(s, k, d, q) ==
    IF k >= Len(s) THEN Unset
    ELSE IF q THEN
        IF At(s, k) = "\\" THEN QuoteAwareEnd(s, k + 2, d, TRUE)
        ELSE IF At(s, k) = "\"" THEN QuoteAwareEnd(s, k + 1, d, FALSE)
        ELSE QuoteAwareEnd(s, k + 1, d, TRUE)
    ELSE IF At(s, k) = "\"" THEN QuoteAwareEnd(s, k + 1, d, TRUE)
    ELSE IF At(s, k) = "{" THEN QuoteAwareEnd(s, k + 1, d + 1, FALSE)
    ELSE IF At(s, k) = "}" THEN
        IF d - 1 = 0 THEN k + 1 ELSE QuoteAwareEnd(s, k + 1, d - 1, FALSE)
    ELSE QuoteAwareEnd(s, k + 1, d, FALSE)

C2_QuoteAware ==
    (pc \in AfterCheck /\ HasBrace(response_text)) =>
        LET e == QuoteAwareEnd(response_text, FirstBrace(response_text), 0, FALSE)
        IN  IF e = Unset
            THEN json_str = NoStr
            ELSE json_str = Slice(response_text, FirstBrace(response_text), e)

(***************************************************************************)
(* C3: a response that is one well-formed object literal with prose before *)
(* and after it yields exactly that literal.                               *)
(***************************************************************************)
C3_EmbeddedLiteral ==
    (/\ pc \in AfterCheck
     /\ embedded # <<>>
     /\ \E l \in Leads, t \in Trails :
           /\ response = l \o embedded \o t
           /\ ~HasBrace(l) /\ ~HasBrace(t))
    => json_str = embedded

(***************************************************************************)
(* C4: a text with a "{" whose scan never gets back to depth 0 fails with  *)
(* "No complete JSON found in model response"; no span is selected and     *)
(* neither the parse nor the key check is reached.                         *)
(***************************************************************************)
C4_UnbalancedBraces ==
    (/\ pc \in AfterCheck
     /\ HasBrace(response_text)
     /\ Closes(response_text, FirstBrace(response_text)) = {})
    => /\ pc \in Failed
       /\ ErrorIs(MsgIncomplete)
       /\ json_str = NoStr /\ result = None /\ ret = None
       /\ EndsInFailure

C4_Witness ==
    /\ pc = "done"
    /\ HasBrace(response_text)
    /\ Closes(response_text, FirstBrace(response_text)) = {}
    /\ "}" \in Range(response_text)
    /\ exit_code = 1

(***************************************************************************)
(* C5: a text without any "{" fails with "No JSON found in model           *)
(* response", which is not the failure of an unbalanced text; this holds   *)
(* for texts made of "}" alone too.                                        *)
(***************************************************************************)
C5_NoOpeningBrace ==
    (/\ pc \in AfterCheck \cup {"e_scan", "e_check", "f_scan", "f_check"}
     /\ response # NoStr
     /\ ~HasBrace(response_text))
    => /\ pc \in Failed
       /\ ErrorIs(MsgNoJson)
       /\ ~ErrorIs(MsgIncomplete)
       /\ json_start = Unset /\ json_str = NoStr /\ result = None
       /\ EndsInFailure

C5_Witness ==
    /\ pc = "done"
    /\ Len(response) >= 2
    /\ Range(response) = {"}"}
    /\ ErrorIs(MsgNoJson)

(***************************************************************************)
(* C6: when the response holds the end-of-generation marker, the text      *)
(* scanned is what precedes the first marker: a selected span lies before  *)
(* the marker, and an object that opens before the marker and does not     *)
(* close before it is reported as unbalanced.                              *)
(***************************************************************************)
C6_MarkerTruncation ==
    (pc \in AfterEos /\ response # NoStr /\ EOS \in Range(response)) =>
        LET st == Strip(response)
            p == Index(st, EOS)
            n == Len(response_text)
        IN  /\ EOS \notin Range(response_text)
            /\ n <= p
            /\ \A k \in 0..(n - 1) : At(response_text, k) = At(st, k)
            /\ \A k \in n..(p - 1) : At(st, k) \in Whitespace
            /\ json_str # NoStr =>
                  json_end <= p /\ json_str = Slice(st, json_start, json_end)
            /\ (/\ pc \in AfterCheck
                /\ \E k \in 0..(p - 1) : At(st, k) = "{"
                /\ \A e \in Closes(st, FirstBrace(st)) : e >= p)
               => json_str = NoStr /\ ErrorIs(MsgIncomplete)

\* the object opens before the marker and closes only after it
C6_Witness ==
    /\ pc = "done"
    /\ response # NoStr
    /\ EOS \in Range(response)
    /\ LET st == Strip(response)
       IN  /\ \E k \in 0..(Index(st, EOS) - 1) : At(st, k) = "{"
           /\ Closes(st, FirstBrace(st)) # {}
           /\ \A e \in Closes(st, FirstBrace(st)) : e > Index(st, EOS)
    /\ ErrorIs(MsgIncomplete)

(***************************************************************************)
(* C7 and C8: the key check                                                *)
(***************************************************************************)
Required(m) ==
    IF m = "emotion" THEN <<"primary", "confidence">>
    ELSE <<"fallacies", "enrichment">>
Missing(res, m) == {k \in 1..2 : ~Has(res, Required(m)[k])}
MsgMissing(m) == IF m = "emotion" THEN MsgEmotionMissing ELSE MsgFallacyMissing
Validated == result # None /\ pc \notin {"e_validate", "f_validate"}

\* C7 as stated: the failure names the first missing key, in the order
\* primary, confidence (Emotion) and fallacies, enrichment (Fallacy).
C7_NamesFirstMissingKey ==
    (Validated /\ Missing(result, mode) # {}) =>
        /\ pc \in Failed
        /\ Required(mode)[Min(Missing(result, mode))] \in Range(exc.msg)

\* C7 as amended: a record lacking at least one required key fails with the
\* one message "Invalid <kind> JSON: missing required fields", whichever key
\* is missing; the message names no key.
C7_MissingFieldsGeneric ==
    (Validated /\ Missing(result, mode) # {}) =>
        /\ pc \in Failed
        /\ ErrorIs(MsgMissing(mode))
        /\ \A k \in 1..2 : Required(mode)[k] \notin Range(exc.msg)
        /\ ret = None
        /\ EndsInFailure

\* an Emotion record with primary and without confidence
C7_Witness ==
    /\ pc = "done"
    /\ mode = "emotion"
    /\ result # None
    /\ Missing(result, mode) = {2}
    /\ ErrorIs(MsgEmotionMissing)

(***************************************************************************)
(* C8: a parsed record holding every required key is accepted whatever the *)
(* types of its values and whatever other keys it has, and what is         *)
(* returned and printed is the parsed record itself.                       *)
(***************************************************************************)
C8_PresenceOnly ==
    (Validated /\ Missing(result, mode) = {}) =>
        /\ pc \in {"main_out", "done"}
        /\ exc = NoExc
        /\ ret = JsonLoads(json_str).val
        /\ pc = "done" =>
              /\ stdout = << <<"json", JsonLoads(json_str).val>> >>
              /\ exit_code = 0

\* confidence is a string, primary a number, no markers: accepted
C8_Witness ==
    /\ pc = "done"
    /\ mode = "emotion"
    /\ result # None
    /\ Missing(result, mode) = {}
    /\ result[2][<<"confidence">>][1] = "str"
    /\ result[2][<<"primary">>][1] = "num"
    /\ <<"markers">> \notin DOMAIN result[2]
    /\ exit_code = 0

(***************************************************************************)
(* C9: with both signals numbers in range, the transcript is suppressed    *)
(* exactly when (no_speech_prob > 0.5 and avg_logprob < -0.8) or           *)
(* no_speech_prob > 0.8; at exactly 0.5, -0.8 and 0.8 the comparisons are  *)
(* false.  Suppression shows as the empty text of the output.              *)
(***************************************************************************)
GateDecided == t_pc \in {"duration", "output", "segments", "print", "done"}

C9_GateRule ==
    (/\ GateDecided
     /\ stt # NoResult
     /\ IsNum(no_speech_prob) /\ IsNum(avg_logprob)
     /\ no_speech_prob[2] \in 0..100 /\ avg_logprob[2] <= 0)
    => LET nsp == no_speech_prob[2]
           alp == avg_logprob[2]
       IN  /\ nsp > 80 => is_hallucination
           /\ (nsp > 50 /\ alp < -80) => is_hallucination
           /\ nsp <= 50 => ~is_hallucination
           /\ (nsp <= 80 /\ alp >= -80) => ~is_hallucination
           /\ t_pc = "done" =>
                 /\ is_hallucination <=> output.text = ""
                 /\ ~is_hallucination => output.text = stt.text

\* exactly 0.5 with a low log-probability: not suppressed
C9_Witness ==
    /\ t_pc = "done"
    /\ no_speech_prob = Num(50)
    /\ avg_logprob = Num(-90)
    /\ ~is_hallucination
    /\ output.text = "Hallo Welt"

(***************************************************************************)
(* C10: the result printed for a suppressed transcript                     *)
(***************************************************************************)
LanguageOf(r, arg) ==
    IF r.language # "<None>" THEN r.language
    ELSE IF arg # "<None>" THEN arg ELSE "de"
\* the segments of the output of a transcript that is not suppressed
SegmentsOf(r) ==
    IF r.segments = Absent THEN <<>>
    ELSE [k \in DOMAIN r.segments[2] |->
            LET seg == r.segments[2][k]
            IN  [start |-> IF "start" \in DOMAIN seg THEN seg.start ELSE 0,
                 end |-> IF "end" \in DOMAIN seg THEN seg.end ELSE 0,
                 text |-> IF "text" \in DOMAIN seg THEN seg.text ELSE ""]]
Suppressed == t_pc = "done" /\ stt # NoResult /\ is_hallucination
SuppressionIsNoError ==
    /\ t_stdout = <<output>>
    /\ t_exit = 0
    /\ \E k \in DOMAIN t_stderr : t_stderr[k] = <<"warning", "Hallucination detected">>
    /\ \A k \in DOMAIN t_stderr : t_stderr[k][1] # "error"

\* C10 as stated: the text is empty and language, segments and the two
\* durations are what they are without suppression.
C10_OtherFieldsKept ==
    Suppressed =>
        /\ output.text = ""
        /\ output.language = LanguageOf(stt, args_language)
        /\ output.segments = SegmentsOf(stt)
        /\ output.speech_duration_sec = audio_duration
        /\ output.total_duration_sec = audio_duration
        /\ SuppressionIsNoError

\* C10 as amended: the text is empty and the segments are the empty list;
\* language and the two durations are what they are without suppression.
C10_TextAndSegmentsDropped ==
    Suppressed =>
        /\ output.text = ""
        /\ output.segments = <<>>
        /\ output.language = LanguageOf(stt, args_language)
        /\ output.speech_duration_sec = audio_duration
        /\ output.total_duration_sec = audio_duration
        /\ SuppressionIsNoError

\* a suppressed transcript whose engine result has segments
C10_Witness ==
    /\ Suppressed
    /\ stt.segments # Absent
    /\ stt.segments[2] # <<>>
    /\ stt.language = "en"
    /\ audio_duration = 150
    /\ output.segments = <<>>
    /\ output.language = "en"
    /\ t_exit = 0

(***************************************************************************)
(* C11: once the engine has returned a result, the hallucination check     *)
(* ends in a decision and the process does not take the error exit, also   *)
(* when no_speech_prob or avg_logprob is absent or is not a number.        *)
(***************************************************************************)
C11_GateAlwaysDecides ==
    stt # NoResult =>
        /\ t_pc # "except"
        /\ t_pc = "done" => t_exit = 0

(***************************************************************************)
(* C12: a run ends in exactly one of two ways.  Success: the validated     *)
(* record alone on stdout, no error object, status 0.  Failure: nothing on *)
(* stdout, one error object with the message, the mode and the model on    *)
(* stderr, status 1.  Every exception ends in failure, and generation is   *)
(* entered from the start of main only, never after a failure.             *)
(***************************************************************************)
ErrorObjects == {k \in DOMAIN stderr : stderr[k][1] = "error"}
Success ==
    /\ exit_code = 0
    /\ ret # None
    /\ Missing(ret, mode) = {}
    /\ stdout = << <<"json", ret>> >>
    /\ ErrorObjects = {}
Failure ==
    /\ exit_code = 1
    /\ stdout = <<>>
    /\ ErrorObjects = {Len(stderr)}
    /\ stderr[Len(stderr)][2] # <<>>
    /\ stderr[Len(stderr)][3] = mode
    /\ stderr[Len(stderr)][4] = model

C12_OneOfTwoOutcomes ==
    [][ /\ pc' = "done" =>
              /\ Success' \/ Failure'
              /\ ~(Success' /\ Failure')
              /\ exc' # NoExc => Failure'
        /\ pc \in {"e_except", "f_except"} => pc' = "main_except"
        /\ pc = "main_except" => pc' = "done"
        /\ pc' \in {"e_generate", "f_generate"} => pc = "main"
      ]_vars

\* malformed syntax in the selected span: the failure outcome
C12_Witness ==
    /\ pc = "done"
    /\ json_str # NoStr
    /\ result = None
    /\ "json decode error" \in Range(exc.msg)
    /\ Failure

(***************************************************************************)
(* C16: what is selected from a response, or the kind of the extraction    *)
(* failure, is one function of the response text, the same in              *)
(* analyze_emotion and in analyze_fallacy: strip, cut at the first marker, *)
(* strip, then the first balanced span from the first "{".                 *)
(***************************************************************************)
BeforeMarker(s) ==
    IF EOS \in Range(s)
    THEN LET p == CHOOSE k \in DOMAIN s :
                     s[k] = EOS /\ \A j \in 1..(k - 1) : s[j] # EOS
         IN  SubSeq(s, 1, p - 1)
    ELSE s
ExtractionOf(text) ==
    LET t == Strip(BeforeMarker(Strip(text)))
    IN  IF ~HasBrace(t) THEN <<"NoOpeningBrace">>
        ELSE IF Closes(t, FirstBrace(t)) = {} THEN <<"UnbalancedBraces">>
        ELSE <<"span", Slice(t, FirstBrace(t), Min(Closes(t, FirstBrace(t))) + 1)>>
Extraction ==
    IF json_str # NoStr THEN <<"span", json_str>>
    ELSE IF ErrorIs(MsgNoJson) THEN <<"NoOpeningBrace">>
    ELSE IF ErrorIs(MsgIncomplete) THEN <<"UnbalancedBraces">>
    ELSE <<"other">>

C16_SameExtractor ==
    (pc \in AfterCheck /\ response # NoStr /\ mode \in Modes) =>
        Extraction = ExtractionOf(response)

\* analyze_fallacy on a response with prose, a nested object and a marker
C16_Witness ==
    /\ pc = "done"
    /\ mode = "fallacy"
    /\ json_str # NoStr
    /\ json_start > 0
    /\ EOS \in Range(response)
    /\ Extraction = ExtractionOf(response)

(***************************************************************************)
(* C13: a sentence whose comparison meets a zero-magnitude vector is fatal *)
(* for the run: the run does not end with a verdict (status 0 or 1)        *)
(* computed from the other sentences.                                      *)
(***************************************************************************)
HitZeroMagnitude ==
    \E k \in DOMAIN v_stdout :
        /\ v_stdout[k][1] = "Failed to process"
        /\ v_stdout[k][3] = MsgZeroMagnitude

C13_ZeroMagnitudeIsFatal ==
    (v_pc = "done" /\ HitZeroMagnitude) => v_exit \notin {0, 1}

(***************************************************************************)
(* C14: the run passes (status 0) exactly when at least one sentence was   *)
(* compared and the mean of the similarities is at least 0.98; it fails    *)
(* (status 1) exactly when the mean is lower; status 2 is the outcome of a *)
(* missing model file, a load failure, or no sentence compared.  One       *)
(* sentence below 0.98 does not decide.                                    *)
(***************************************************************************)
MeanAtLeastThreshold ==
    SumSeq(similarities) >= SIMILARITY_THRESHOLD * Len(similarities)
RuntimeOrFileError ==
    \/ v_exc.type = "FileNotFoundError"
    \/ v_exc.type = "RuntimeError" /\ v_exc.msg[1] \in
           {"Tokenizer load failed", "FP32 model load failed",
            "INT8 model load failed", MsgAllFailed}

C14_MeanVerdict ==
    v_pc = "done" =>
        /\ v_exit \in {0, 1, 2}
        /\ v_exit = 0 <=> (similarities # <<>> /\ MeanAtLeastThreshold)
        /\ v_exit = 1 <=> (similarities # <<>> /\ ~MeanAtLeastThreshold)
        /\ v_exit = 2 <=> RuntimeOrFileError
        /\ (v_exc.type = "RuntimeError" /\ v_exc.msg[1] = MsgAllFailed)
               <=> (sentence = NumSentences /\ similarities = <<>>)

\* a pass with the mean exactly at the threshold and one sentence below it
C14_Witness ==
    /\ v_pc = "done"
    /\ v_exit = 0
    /\ Len(similarities) = 2
    /\ SumSeq(similarities) = SIMILARITY_THRESHOLD * 2
    /\ \E k \in DOMAIN similarities : similarities[k] < SIMILARITY_THRESHOLD

(***************************************************************************)
(* C15: the quantization script ends with status 0 on success, with 1 when *)
(* the original or the quantized model fails the model check, and with 2   *)
(* on any other error.                                                     *)
(***************************************************************************)
ModelCheckFailed ==
    /\ q_exc.type = "RuntimeError"
    /\ q_exc.msg[1] \in {MsgValidation, MsgQuantizedValidation}
    /\ q_exc.msg[2] = "check_model"

C15_QuantizeExitCodes ==
    q_pc = "done" =>
        /\ q_exc = NoExc => q_exit = 0
        /\ ModelCheckFailed => q_exit = 1
        /\ (q_exc # NoExc /\ ~ModelCheckFailed) => q_exit = 2

(***************************************************************************)
(* C17: a temporary file of a request exists only after the request passed *)
(* both checks (an audio part, and an extension among .wav .mp3 .m4a       *)
(* .ogg), and once the handler has returned after running the subprocess   *)
(* (success, nonzero return code, timeout, unparsable output, or any other *)
(* exception of the call) the temporary file of the request is gone.       *)
(***************************************************************************)
\* the temporary files of the request being handled
OwnTempFiles == {f \in tmpfiles : f[2] = handled}
PassedChecks ==
    /\ request.has_audio
    /\ Lower(Suffix(request.filename)) \in ALLOWED_EXTENSIONS
    /\ s_pc \notin {"idle", "check_audio", "check_ext", "create"}
ThroughSubprocess == tmp_path # NoPath

====
